---- MODULE Spec2Model ----
(***************************************************************************)
(* fadvise: a command-line front end of posix_fadvise(2).                  *)
(*                                                                         *)
(* One process invocation is modelled at the granularity of the system     *)
(* calls that main() and handle_advice() make on the named path, so that   *)
(* other processes (the Env actions) can act on the file between two of    *)
(* them.  `trace` records what the process did to the outside world, in    *)
(* order.  The same command line can be run a second time (Rerun).         *)
(*                                                                         *)
(* OFFSET and LENGTH are carried as the integers their numerals denote;    *)
(* numerals outside i64 are rejected by the same value parser that rejects *)
(* negative ones and never reach handle_advice.  File sizes are bounded by *)
(* off_t, so `metadata.len() as i64` (main.rs:124) never wraps.            *)
(***************************************************************************)
EXTENDS Integers, Sequences, FiniteSets, TLC

\* ---------------------------------------------------------------- bounds
MaxSize == 1
MaxArg == 1
MaxEnvSteps == 1

\* ------------------------------------------------------------- vocabulary
\* Option<T> is a sequence of length at most one.
None == <<>>
Some(x) == <<x>>
IsSome(o) == Len(o) = 1
Unwrap(o) == o[1]

FILE == "/dir/file"

\* enum FadviseType
FadviseType ==
    {"Normal", "Sequential", "Random", "NoReuse", "WillNeed", "DontNeed"}

\* The names of the six advice subcommands of enum Commands.
AdviceCommands ==
    {"normal", "sequential", "random", "noreuse", "willneed", "dontneed"}

\* enum Commands: the #[clap(name = ...)] of every variant.
Commands == AdviceCommands \cup {"completion"}

\* The doc comment of each advice subcommand: "Apply advice of <constant>".
CommandDoc(cmd) ==
    CASE cmd = "normal" -> "POSIX_FADV_NORMAL"
      [] cmd = "sequential" -> "POSIX_FADV_SEQUENTIAL"
      [] cmd = "random" -> "POSIX_FADV_RANDOM"
      [] cmd = "noreuse" -> "POSIX_FADV_NOREUSE"
      [] cmd = "willneed" -> "POSIX_FADV_WILLNEED"
      [] cmd = "dontneed" -> "POSIX_FADV_DONTNEED"

\* impl Display for FadviseType
Display(advice) ==
    CASE advice = "Normal" -> "POSIX_FADV_NORMAL"
      [] advice = "Sequential" -> "POSIX_FADV_SEQUENTIAL"
      [] advice = "Random" -> "POSIX_FADV_RANDOM"
      [] advice = "NoReuse" -> "POSIX_FADV_NOREUSE"
      [] advice = "WillNeed" -> "POSIX_FADV_WILLNEED"
      [] advice = "DontNeed" -> "POSIX_FADV_DONTNEED"

\* From with the NoReuse arm copied from the Normal arm.
FromCopyPaste(advice) ==
    CASE advice = "Normal" -> "PosixFadviseAdvice::POSIX_FADV_NORMAL"
      [] advice = "Sequential" -> "PosixFadviseAdvice::POSIX_FADV_SEQUENTIAL"
      [] advice = "Random" -> "PosixFadviseAdvice::POSIX_FADV_RANDOM"
      [] advice = "NoReuse" -> "PosixFadviseAdvice::POSIX_FADV_NORMAL"
      [] advice = "WillNeed" -> "PosixFadviseAdvice::POSIX_FADV_WILLNEED"
      [] advice = "DontNeed" -> "PosixFadviseAdvice::POSIX_FADV_DONTNEED"

\* impl From<FadviseType> for PosixFadviseAdvice
From(advice) ==
    CASE advice = "Normal" -> "PosixFadviseAdvice::POSIX_FADV_NORMAL"
      [] advice = "Sequential" -> "PosixFadviseAdvice::POSIX_FADV_SEQUENTIAL"
      [] advice = "Random" -> "PosixFadviseAdvice::POSIX_FADV_RANDOM"
      [] advice = "NoReuse" -> "PosixFadviseAdvice::POSIX_FADV_NOREUSE"
      [] advice = "WillNeed" -> "PosixFadviseAdvice::POSIX_FADV_WILLNEED"
      [] advice = "DontNeed" -> "PosixFadviseAdvice::POSIX_FADV_DONTNEED"

\* main: the FadviseType each arm of `match cli.command` hands to
\* handle_advice.
Dispatch(cmd) ==
    CASE cmd = "normal" -> "Normal"
      [] cmd = "sequential" -> "Sequential"
      [] cmd = "random" -> "Random"
      [] cmd = "noreuse" -> "NoReuse"
      [] cmd = "willneed" -> "WillNeed"
      [] cmd = "dontneed" -> "DontNeed"

\* The value parser without its range.
InRangeUnchecked(n) == TRUE

\* struct AdviseInfo: value_parser!(i64).range(0..) on offset and on len.
InRange(n) == n >= 0

\* Whether Cli::parse() accepts the command line `a`.
ParseAccepts(a) ==
    /\ IsSome(a.offset) => InRange(Unwrap(a.offset))
    /\ IsSome(a.len) => InRange(Unwrap(a.len))

\* struct AdviseInfo as Cli::parse() fills it: offset has default_value_t = 0,
\* len stays an Option.
AdviseInfo(a) ==
    [filename |-> a.filename,
     offset |-> IF IsSome(a.offset) THEN Unwrap(a.offset) ELSE 0,
     len |-> a.len]

\* A call whose Err is dropped instead of propagated.
IsErrIgnored(res) == FALSE

\* The `?` after a call: an Err leaves handle_advice at once.
IsErr(res) == res # "ok"

\* ------------------------------------------------------------ file system
\* The named path has a parent component and a final component.
\*   parent: "dir" (a directory), "missing", "file" (a regular file)
\*   kind:   "regular", "directory", "device", "absent" (final component)
\* size, readable and advisable belong to a regular file; they take fixed
\* values otherwise.
Node(parent, kind, size, readable, advisable) ==
    [parent |-> parent, kind |-> kind, size |-> size,
     readable |-> readable, advisable |-> advisable]

NoNode(parent) == Node(parent, "absent", 0, TRUE, TRUE)

FsStates ==
    {Node("dir", "regular", s, r, a) :
        s \in 0..MaxSize, r \in BOOLEAN, a \in BOOLEAN}
    \cup {Node("dir", k, 0, TRUE, TRUE) : k \in {"directory", "device"}}
    \cup {NoNode(p) : p \in {"dir", "missing", "file"}}

\* Whether the path names anything at all.
PathExists(f) == f.parent = "dir" /\ f.kind # "absent"

\* stat(2) on the path, as fs::metadata issues it.
Stat(f) ==
    IF f.parent = "missing" THEN [res |-> "ENOENT", kind |-> "none", size |-> 0]
    ELSE IF f.parent = "file" THEN [res |-> "ENOTDIR", kind |-> "none", size |-> 0]
    ELSE IF f.kind = "absent" THEN [res |-> "ENOENT", kind |-> "none", size |-> 0]
    ELSE [res |-> "ok", kind |-> f.kind, size |-> f.size]

\* try_exists taking NotFound for Ok(true).
TryExistsAssumesPresent(st) ==
    IF st.res = "ok" \/ st.res = "ENOENT" THEN "true" ELSE "err"

\* Path::try_exists: Ok(true), Ok(false) for NotFound, Err for the rest.
TryExists(st) ==
    IF st.res = "ok" THEN "true"
    ELSE IF st.res = "ENOENT" THEN "false"
    ELSE "err"

\* is_file answering for anything that exists.
IsFileAlways(st) == TRUE

\* Metadata::is_file
IsFile(st) == st.kind = "regular"

\* The default length taken as what remains after the offset.
ResolveLenRemaining(info, st) ==
    IF IsSome(info.len) THEN Unwrap(info.len) ELSE st.size - info.offset

\* The default length left to the kernel: 0 stands for "to the end of file".
ResolveLenToEnd(info, st) == IF IsSome(info.len) THEN Unwrap(info.len) ELSE 0

\* info.len.unwrap_or(metadata.len() as i64)
ResolveLen(info, st) == IF IsSome(info.len) THEN Unwrap(info.len) ELSE st.size

\* open(2) with O_RDONLY, as File::open issues it.
OpenResult(f) ==
    IF f.parent = "missing" THEN "ENOENT"
    ELSE IF f.parent = "file" THEN "ENOTDIR"
    ELSE IF f.kind = "absent" THEN "ENOENT"
    ELSE IF ~f.readable THEN "EACCES"
    ELSE "ok"

\* An open that truncates (File::create in place of File::open).
OpenEffectTruncate(f) == [f EXCEPT !.size = 0]

\* What File::open does to the file: a read-only open leaves it as it is.
OpenEffect(f) == f

\* posix_fadvise(2) on the open descriptor.
FadviseResult(fdesc) == IF fdesc.advisable THEN "ok" ELSE "EINVAL"

\* A main that drops handle_advice's result.
MainExitAlwaysZero(error) == 0

\* main returns anyhow::Result<()>: Ok exits 0, Err prints "Error: ..." and
\* exits 1.
MainExit(error) == IF error = "" THEN 0 ELSE 1

\* ------------------------------------------------------------------ state
VARIABLES
    args,       \* the command line: [cmd, filename, offset, len]
    info,       \* the AdviseInfo that Cli::parse() made of it
    fs,         \* the file system at the named path
    stderrOk,   \* whether the error stream accepts writes
    pc,         \* the statement the process is at
    metadata,   \* handle_advice's `metadata` (the stat result it holds)
    len,        \* handle_advice's `len`, once resolved
    fd,         \* handle_advice's `file`, once opened
    trace,      \* this run's system calls and writes, in order
    exit,       \* the process's exit status, once it has exited
    error,      \* the error the run ended with ("" for none)
    run,        \* 1 for the first run of the command line, 2 for the second
                \* (SpecTwice)
    prev,       \* the first run's outcome, kept for the second
    envAt,      \* where the process was, <<run, pc>>, each time another
                \* process changed the file
    fs0         \* the file system when the first run started

vars ==
    <<args, info, fs, stderrOk, pc, metadata, len, fd, trace, exit, error, run,
      prev, envAt, fs0>>

NoInfo == [filename |-> "", offset |-> 0, len |-> None]
NoMetadata == [res |-> "none", kind |-> "none", size |-> 0]
NoPrev == [exit |-> None, error |-> "", trace |-> <<>>]

\* The command lines: an advice subcommand with OFFSET and an optional
\* LENGTH, or the completion subcommand.
ArgValues == -1..MaxArg

\* LENGTH can be given only after OFFSET: both are positional.
CommandLines ==
    {[cmd |-> c, filename |-> FILE, offset |-> o, len |-> l] :
        c \in AdviceCommands,
        o \in {Some(n) : n \in ArgValues},
        l \in {None} \cup {Some(n) : n \in ArgValues}}
    \cup {[cmd |-> c, filename |-> FILE, offset |-> None, len |-> None] :
            c \in AdviceCommands}
    \cup {[cmd |-> "completion", filename |-> "", offset |-> None, len |-> None]}

Init ==
    /\ args \in CommandLines
    /\ info = NoInfo
    /\ fs \in FsStates
    /\ stderrOk \in BOOLEAN
    /\ pc = "parse"
    /\ metadata = NoMetadata
    /\ len = None
    /\ fd = None
    /\ trace = <<>>
    /\ exit = None
    /\ error = ""
    /\ run = 1
    /\ prev = NoPrev
    /\ envAt = <<>>
    /\ fs0 = fs

\* ----------------------------------------------------------------- events
StatEvent(st) == [op |-> "stat", res |-> st.res, kind |-> st.kind, size |-> st.size]
LineEvent(key, str, num) == [op |-> "eprintln", key |-> key, str |-> str, num |-> num]
OpenEvent(res) == [op |-> "open", flags |-> "O_RDONLY", res |-> res]
FadviseEvent(offset, length, advice, res) ==
    [op |-> "posix_fadvise", offset |-> offset, len |-> length,
     advice |-> advice, res |-> res]
CompletionEvent == [op |-> "generate"]

\* The diagnostic with the offset and the length exchanged.
DiagnosticSwapped(filename, advice, offset, length) ==
    << [op |-> "eprintln", key |-> "filename", str |-> filename, num |-> 0],
       [op |-> "eprintln", key |-> "advice", str |-> Display(advice), num |-> 0],
       [op |-> "eprintln", key |-> "offset", str |-> "", num |-> length],
       [op |-> "eprintln", key |-> "len", str |-> "", num |-> offset] >>

\* The four eprintln! lines of handle_advice.
Diagnostic(filename, advice, offset, length) ==
    << LineEvent("filename", filename, 0),
       LineEvent("advice", Display(advice), 0),
       LineEvent("offset", "", offset),
       LineEvent("len", "", length) >>

\* The arguments of the posix_fadvise call after the descriptor.
CallArgs(offset, length, advice) ==
    [offset |-> offset, len |-> length, advice |-> From(advice)]

\* ---------------------------------------------------------------- actions
\* The process ends with `e` ("" for Ok(())) returned from main.
Return(e) ==
    /\ pc' = "exit"
    /\ error' = e
    /\ exit' = Some(MainExit(e))

\* Cli::parse(): a rejected command line ends the process with status 2
\* before main's match is reached.
Parse ==
    /\ pc = "parse"
    /\ IF ~ParseAccepts(args)
         THEN /\ pc' = "exit"
              /\ error' = "invalid value"
              /\ exit' = Some(2)
              /\ UNCHANGED info
         ELSE IF args.cmd = "completion"
         THEN /\ pc' = "completion"
              /\ UNCHANGED <<exit, error, info>>
         ELSE /\ pc' = "try_exists"
              /\ info' = AdviseInfo(args)
              /\ UNCHANGED <<exit, error>>
    /\ UNCHANGED <<args, fs, stderrOk, metadata, len, fd, trace, run, prev,
                   envAt, fs0>>

\* print_completer
PrintCompleter ==
    /\ pc = "completion"
    /\ trace' = Append(trace, CompletionEvent)
    /\ Return("")
    /\ UNCHANGED <<args, info, fs, stderrOk, metadata, len, fd, run, prev,
                   envAt, fs0>>

\* handle_advice: filename.try_exists() and the `if !exists`.
CheckExistence ==
    /\ pc = "try_exists"
    /\ LET st == Stat(fs)
           ex == TryExists(st)
       IN /\ trace' = Append(trace, StatEvent(st))
          /\ IF ex = "err" THEN Return("Failed to check existence of the file")
             ELSE IF ex = "false" THEN Return("does not exist")
             ELSE /\ pc' = "metadata"
                  /\ UNCHANGED <<exit, error>>
    /\ UNCHANGED <<args, info, fs, stderrOk, metadata, len, fd, run, prev,
                   envAt, fs0>>

\* handle_advice: filename.metadata() and the `if !metadata.is_file()`.
FetchMetadata ==
    /\ pc = "metadata"
    /\ LET st == Stat(fs)
       IN /\ trace' = Append(trace, StatEvent(st))
          /\ IF IsErr(st.res)
             THEN /\ Return("Failed to retrieve metadata of the file")
                  /\ UNCHANGED metadata
             ELSE IF ~IsFile(st)
             THEN /\ Return("is not a file")
                  /\ metadata' = st
             ELSE /\ pc' = "prepare"
                  /\ metadata' = st
                  /\ UNCHANGED <<exit, error>>
    /\ UNCHANGED <<args, info, fs, stderrOk, len, fd, run, prev, envAt, fs0>>

\* handle_advice: "Prepare arguments", the unwrap_or and the four eprintln!.
\* eprintln! panics when the write fails; a panic exits with status 101.
PrepareArguments ==
    /\ pc = "prepare"
    /\ LET l == ResolveLen(info, metadata)
       IN /\ len' = Some(l)
          /\ IF stderrOk
             THEN /\ trace' = trace \o Diagnostic(info.filename, Dispatch(args.cmd), info.offset, l)
                  /\ pc' = "open"
                  /\ UNCHANGED <<exit, error>>
             ELSE /\ pc' = "exit"
                  /\ error' = "panicked: failed printing to stderr"
                  /\ exit' = Some(101)
                  /\ UNCHANGED trace
    /\ UNCHANGED <<args, info, fs, stderrOk, metadata, fd, run, prev, envAt, fs0>>

\* handle_advice: File::open(filename) and file.as_raw_fd().
OpenFile ==
    /\ pc = "open"
    /\ LET r == OpenResult(fs)
       IN /\ trace' = Append(trace, OpenEvent(r))
          /\ IF IsErr(r)
             THEN /\ Return("Failed to open the file")
                  /\ UNCHANGED <<fd, fs>>
             ELSE /\ fd' = Some([kind |-> fs.kind, advisable |-> fs.advisable])
                  /\ fs' = OpenEffect(fs)
                  /\ pc' = "posix_fadvise"
                  /\ UNCHANGED <<exit, error>>
    /\ UNCHANGED <<args, info, stderrOk, metadata, len, run, prev, envAt, fs0>>

\* handle_advice: posix_fadvise(fd, offset, len, advice.into())? and Ok(()).
Advise ==
    /\ pc = "posix_fadvise"
    /\ LET call == CallArgs(info.offset, Unwrap(len), Dispatch(args.cmd))
           r == FadviseResult(Unwrap(fd))
       IN /\ trace' = Append(trace,
                FadviseEvent(call.offset, call.len, call.advice, r))
          /\ Return(IF IsErr(r) THEN r ELSE "")
    /\ UNCHANGED <<args, info, fs, stderrOk, metadata, len, fd, run, prev,
                   envAt, fs0>>

\* The same command line is run again once the first run has exited.
Rerun ==
    /\ pc = "exit"
    /\ run = 1
    /\ run' = 2
    /\ prev' = [exit |-> exit, error |-> error, trace |-> trace]
    /\ pc' = "parse"
    /\ info' = NoInfo
    /\ metadata' = NoMetadata
    /\ len' = None
    /\ fd' = None
    /\ trace' = <<>>
    /\ exit' = None
    /\ error' = ""
    /\ UNCHANGED <<args, fs, stderrOk, envAt, fs0>>

\* handle_advice is running.  What other processes do to the file before
\* it starts is a choice of Init; what they do after it is seen by nobody.
InHandleAdvice ==
    pc \in {"try_exists", "metadata", "prepare", "open", "posix_fadvise"}

\* Another process truncates or extends the file.
EnvResize ==
    /\ InHandleAdvice
    /\ Len(envAt) < MaxEnvSteps
    /\ fs.kind = "regular"
    /\ \E s \in (0..MaxSize) \ {fs.size} : fs' = [fs EXCEPT !.size = s]
    /\ envAt' = Append(envAt, <<run, pc>>)
    /\ UNCHANGED <<args, info, stderrOk, pc, metadata, len, fd, trace, exit,
                   error, run, prev, fs0>>

\* Another process removes the file or the directory.
EnvUnlink ==
    /\ InHandleAdvice
    /\ Len(envAt) < MaxEnvSteps
    /\ PathExists(fs)
    /\ fs' = NoNode("dir")
    /\ envAt' = Append(envAt, <<run, pc>>)
    /\ UNCHANGED <<args, info, stderrOk, pc, metadata, len, fd, trace, exit,
                   error, run, prev, fs0>>

\* One invocation, with other processes at work on the file.
Next ==
    \/ Parse
    \/ PrintCompleter
    \/ CheckExistence
    \/ FetchMetadata
    \/ PrepareArguments
    \/ OpenFile
    \/ Advise
    \/ EnvResize
    \/ EnvUnlink

Spec == Init /\ [][Next]_vars

\* Two invocations in succession, the file left alone by everybody else.
NextTwice ==
    \/ Parse
    \/ PrintCompleter
    \/ CheckExistence
    \/ FetchMetadata
    \/ PrepareArguments
    \/ OpenFile
    \/ Advise
    \/ Rerun

SpecTwice == Init /\ [][NextTwice]_vars

\* ----------------------------------------------------------------- claims
\* The places of the events of kind `op` in the trace `t`.
Ops(t, op) == {i \in DOMAIN t : t[i].op = op}

Issued(t) == Ops(t, "posix_fadvise") # {}

NeverOpened(t) == Ops(t, "open") = {} /\ Ops(t, "posix_fadvise") = {}

\* handle_advice leaves the existence check, the metadata fetch.
LeavesExistenceCheck == pc = "try_exists" /\ pc' # "try_exists"
LeavesMetadataFetch == pc = "metadata" /\ pc' # "metadata"

\* The metadata fetch of this run answered for a regular file.
MetaSeen ==
    /\ Len(trace) >= 2
    /\ trace[2] = [op |-> "stat", res |-> "ok", kind |-> "regular",
                   size |-> trace[2].size]

\* An event that reports a failed step.
Failure(e) ==
    \/ e.op \in {"stat", "open", "posix_fadvise"} /\ e.res # "ok"
    \/ e.op = "stat" /\ e.res = "ok" /\ e.kind # "regular"

\* A directory fails the second check, not the first.
FailureAt(t, i) ==
    IF i = 1 /\ t[i].op = "stat" THEN t[i].res # "ok" ELSE Failure(t[i])

\* C1 as stated: whenever the existence check is made on a path that does
\* not exist, for whatever reason, the run ends there with the error
\* "does not exist", nothing was opened and no advisory call was issued.
C1_EveryNonExistentPath ==
    [][(LeavesExistenceCheck /\ ~PathExists(fs)) =>
        /\ pc' = "exit"
        /\ error' = "does not exist"
        /\ exit' # Some(0)
        /\ NeverOpened(trace')]_vars

\* C1 as amended: whenever the existence check is made on a path that does
\* not exist, the run ends there with a non-zero status, nothing opened and
\* no advisory call; the error is "does not exist" when the final or the
\* parent component is missing, and "Failed to check existence of the file"
\* when the parent component is not a directory.
C1_NonExistentPathFails ==
    [][(LeavesExistenceCheck /\ ~PathExists(fs)) =>
        /\ pc' = "exit"
        /\ error' = IF fs.parent = "file"
                      THEN "Failed to check existence of the file"
                      ELSE "does not exist"
        /\ exit' # Some(0)
        /\ NeverOpened(trace')]_vars

C1_Witness ==
    /\ pc = "exit"
    /\ fs.parent = "missing"
    /\ error = "does not exist"
    /\ Len(trace) = 1

\* C2: whenever the metadata fetch is made on a path that exists and is not a
\* regular file, the run ends there with the error "is not a file", nothing
\* opened and no advisory call; and a run on such a path ends that way.
C2_NotAFile ==
    /\ [][(LeavesMetadataFetch /\ PathExists(fs) /\ fs.kind # "regular") =>
            /\ pc' = "exit"
            /\ error' = "is not a file"
            /\ exit' # Some(0)
            /\ NeverOpened(trace')]_vars
    /\ [](( /\ pc = "exit"
            /\ info # NoInfo
            /\ PathExists(fs)
            /\ fs.kind # "regular") =>
           (error = "is not a file" /\ exit # Some(0) /\ NeverOpened(trace)))

C2_Witness ==
    /\ pc = "exit"
    /\ fs.kind = "directory"
    /\ error = "is not a file"
    /\ Len(trace) = 2

\* C3: a command line of an advice subcommand with a negative OFFSET or a
\* negative LENGTH is rejected by the parser: the process makes no system
\* call on the path and no write, and exits non-zero from the parse.
NegativeArgument ==
    \/ IsSome(args.offset) /\ Unwrap(args.offset) < 0
    \/ IsSome(args.len) /\ Unwrap(args.len) < 0

C3_NegativeRejectedAtParse ==
    (args.cmd \in AdviceCommands /\ NegativeArgument) =>
        /\ trace = <<>>
        /\ pc \in {"parse", "exit"}
        /\ info = NoInfo
        /\ pc = "exit" => (exit # Some(0) /\ error = "invalid value")

C3_Witness ==
    /\ pc = "exit"
    /\ args.cmd = "dontneed"
    /\ args.offset = Some(0)
    /\ args.len = Some(-1)
    /\ fs.kind = "regular"
    /\ exit = Some(2)

\* C4: with LENGTH omitted, the resolved length, the length the diagnostic
\* reports and the length of the advisory call are all the size N the
\* metadata fetch reported, whatever the offset; N is the file's size when
\* no other process has touched the file.
C4_DefaultLenIsFileSize ==
    (args.len = None /\ MetaSeen) =>
        LET N == trace[2].size
        IN /\ IsSome(len) => Unwrap(len) = N
           /\ \A i \in Ops(trace, "eprintln") :
                 trace[i].key = "len" => trace[i].num = N
           /\ \A i \in Ops(trace, "posix_fadvise") : trace[i].len = N
           /\ envAt = <<>> => N = fs.size

C4_Witness ==
    /\ args.len = None
    /\ info.offset = 1
    /\ MetaSeen
    /\ trace[2].size = 1
    /\ \E i \in Ops(trace, "posix_fadvise") : trace[i].len = 1

\* C5: main hands each of the six subcommands a FadviseType; no two
\* subcommands get the same kernel advice or the same label; and a run's
\* advisory call carries, and its diagnostic names, the constant that the
\* subcommand is documented to apply.
C5_AdviceMapping ==
    /\ \A c \in AdviceCommands : Dispatch(c) \in FadviseType
    /\ \A c1, c2 \in AdviceCommands :
          c1 # c2 => /\ From(Dispatch(c1)) # From(Dispatch(c2))
                     /\ Display(Dispatch(c1)) # Display(Dispatch(c2))
    /\ \A i \in Ops(trace, "posix_fadvise") :
          trace[i].advice = "PosixFadviseAdvice::" \o CommandDoc(args.cmd)
    /\ \A i \in Ops(trace, "eprintln") :
          trace[i].key = "advice" => trace[i].str = CommandDoc(args.cmd)

C5_Witness ==
    /\ args.cmd = "noreuse"
    /\ \E i \in Ops(trace, "posix_fadvise") :
          trace[i].advice = "PosixFadviseAdvice::POSIX_FADV_NOREUSE"
    /\ \E i \in Ops(trace, "eprintln") : trace[i].str = "POSIX_FADV_NOREUSE"

\* C6: an advisory call is preceded in the trace by exactly four diagnostic
\* lines, filename, advice, offset, len in that order, which report the
\* call's own advice, offset and length; an OFFSET or LENGTH given on the
\* command line is the value of the call.
C6_DiagnosticBeforeCall ==
    \A i \in Ops(trace, "posix_fadvise") :
        /\ Cardinality(Ops(trace, "eprintln")) = 4
        /\ \E j \in 1..(i - 4) :
              /\ \A k \in 0..3 : trace[j + k].op = "eprintln"
              /\ trace[j].key = "filename" /\ trace[j].str = args.filename
              /\ trace[j + 1].key = "advice"
              /\ "PosixFadviseAdvice::" \o trace[j + 1].str = trace[i].advice
              /\ trace[j + 2].key = "offset"
              /\ trace[j + 2].num = trace[i].offset
              /\ trace[j + 3].key = "len"
              /\ trace[j + 3].num = trace[i].len
        /\ IsSome(args.offset) => trace[i].offset = Unwrap(args.offset)
        /\ IsSome(args.len) => trace[i].len = Unwrap(args.len)

C6_Witness ==
    /\ args.offset = Some(0)
    /\ args.len = Some(1)
    /\ MetaSeen
    /\ trace[2].size = 0
    /\ \E i \in Ops(trace, "posix_fadvise") :
          trace[i].offset = 0 /\ trace[i].len = 1

\* C7: a run makes at most two stat calls, one open and one advisory call;
\* the advisory call comes after a successful existence check, a metadata
\* fetch that reported a regular file and a successful read-only open, in
\* that order; and a failed step is the last thing the run does, the run
\* having exited non-zero.
C7_NoPartialSuccess ==
    /\ Cardinality(Ops(trace, "posix_fadvise")) <= 1
    /\ Cardinality(Ops(trace, "open")) <= 1
    /\ Cardinality(Ops(trace, "stat")) <= 2
    /\ \A i \in Ops(trace, "posix_fadvise") :
          \E a, b, c \in 1..(i - 1) :
              /\ a < b /\ b < c
              /\ trace[a].op = "stat" /\ trace[a].res = "ok"
              /\ trace[b].op = "stat" /\ trace[b].res = "ok"
              /\ trace[b].kind = "regular"
              /\ trace[c] = [op |-> "open", flags |-> "O_RDONLY", res |-> "ok"]
    /\ \A i \in DOMAIN trace :
          FailureAt(trace, i) =>
              /\ i = Len(trace)
              /\ pc = "exit"
              /\ exit # Some(0)

C7_Witness ==
    /\ pc = "exit"
    /\ Len(trace) = 7
    /\ trace[7] = [op |-> "open", flags |-> "O_RDONLY", res |-> "EACCES"]

\* C8: a run of an advice subcommand that has exited has status 0 exactly
\* when it issued an advisory call that succeeded; a run in which a step
\* failed has a non-zero status and an error.
C8_ExitStatus ==
    (pc = "exit" /\ args.cmd \in AdviceCommands) =>
        /\ exit = Some(0) <=>
              \E i \in Ops(trace, "posix_fadvise") : trace[i].res = "ok"
        /\ (\E i \in DOMAIN trace : FailureAt(trace, i)) =>
              (exit # Some(0) /\ error # "")
        /\ exit # Some(0) => error # ""

C8_Witness ==
    /\ pc = "exit"
    /\ exit = Some(1)
    /\ error = "EINVAL"
    /\ \E i \in Ops(trace, "posix_fadvise") : trace[i].res = "EINVAL"

\* C9 (under SpecTwice, where no other process touches the file): the file
\* stays as it was before the first run; and the second run of the same
\* command line ends with the status and the error of the first, having
\* made the same calls with the same arguments and results.
C9_Idempotent ==
    /\ fs = fs0
    /\ (run = 2 /\ pc = "exit") =>
          /\ exit = prev.exit
          /\ error = prev.error
          /\ trace = prev.trace

C9_Witness ==
    /\ run = 2
    /\ pc = "exit"
    /\ args.len = None
    /\ fs.size = 1
    /\ exit = Some(0)
    /\ Issued(trace) /\ Issued(prev.trace)

\* C10: with LENGTH omitted, an advisory call carries the size the metadata
\* fetch reported, and the run makes no stat call after that fetch: the
\* size is not read again, whatever has happened to the file since.
C10_StaleDefaultLen ==
    args.len = None =>
        /\ pc = "posix_fadvise" => Unwrap(len) = trace[2].size
        /\ \A i \in Ops(trace, "posix_fadvise") :
              /\ Ops(trace, "stat") = {1, 2}
              /\ trace[i].len = trace[2].size

\* The file was resized between the metadata fetch and the advisory call,
\* and the call was issued, and succeeded, with a length that is not the
\* file's size.
C10_Witness ==
    /\ args.len = None
    /\ pc = "exit"
    /\ exit = Some(0)
    /\ fs.kind = "regular"
    /\ \E k \in DOMAIN envAt :
          envAt[k][1] = run /\ envAt[k][2] \in {"prepare", "open", "posix_fadvise"}
    /\ \E i \in Ops(trace, "posix_fadvise") : trace[i].len # fs.size

====
